---- MODULE Spec2Model ----
(***************************************************************************)
(* Two-time-pad recovery (project1.py): the bigram/word scorer and the     *)
(* annealed hill climb with restarts that searches for the plaintext pair. *)
(*                                                                         *)
(* Representation.  A bytes/bytearray value is a sequence of integers in   *)
(* 0..255.  A decoded str is a sequence of Unicode code points.  A scoring *)
(* character (the 1-character strings byte_to_char returns and the table   *)
(* is keyed by) is a TLA+ string, and Python's None is the string "None".  *)
(* Scores are Python floats; here they are integers in thousandths, so     *)
(* -100.0 is -100000, 10000 is 10000000 and log(1e-9) = -20.723... is      *)
(* -20723.                                                                 *)
(***************************************************************************)
EXTENDS Integers, Sequences, FiniteSets, TLC

(* ------------------------------ bounds -------------------------------- *)
\* longest difference array
MaxLen == 2
\* largest restarts argument
MaxRestarts == 2
\* largest iterations argument
MaxIterations == 2
\* longest byte sequence scored on its own
MaxScoreLen == 3
\* largest iterations argument of the cooling schedule on its own
MaxCoolIterations == 120

(* --------------------------- program constants ------------------------ *)
\* ALPHABET = b" ABC...XYZabc...xyz"
ALPHABET ==
    <<32>> \o [j \in 1..26 |-> 64 + j] \o [j \in 1..26 |-> 96 + j]

COMMON_WORDS ==
    << <<116, 104, 101>>,           \* the
       <<97, 110, 100>>,            \* and
       <<121, 111, 117>>,           \* you
       <<116, 104, 97, 116>>,       \* that
       <<119, 97, 115>>,            \* was
       <<116, 104, 105, 115>>,      \* this
       <<119, 105, 116, 104>>,      \* with
       <<102, 111, 114>>,           \* for
       <<104, 97, 118, 101>>,       \* have
       <<110, 111, 116>>,           \* not
       <<97, 114, 101>>,            \* are
       <<98, 117, 116>>,            \* but
       <<104, 97, 100>>,            \* had
       <<116, 104, 101, 121>>,      \* they
       <<104, 105, 115>>,           \* his
       <<102, 114, 111, 109>>,      \* from
       <<115, 104, 101>>,           \* she
       <<119, 104, 105, 99, 104>>,  \* which
       <<119, 105, 108, 108>>,      \* will
       <<111, 110, 101>> >>         \* one

\* a penalty of -10.0: weaker than the floor log-probability
penalty_weak == 0 - 10000
\* penalty = -100.0 (score_bigram), in thousandths
penalty == -100000
\* the bonus per word occurrence, 10000 (word_bonus_score), in thousandths
WORD_BONUS == 10000000
\* math.log(floor) with floor = 1e-9 (load_ftable), in thousandths
LOG_FLOOR == -20723
\* the default 1e-9 itself, its logarithm forgotten
LOG_DEFAULT_RAW == 0 * 1
\* math.log(1e-9), the default of logp.get (score_bigram), in thousandths
LOG_DEFAULT == -20723
\* best_score starts at -1e18: a value below every score a sequence of a
\* representable length can have (here: below every 32-bit score)
INITIAL_BEST == -2000000000
\* math.exp(x) is 0.0 for x < -745.133..., in thousandths
EXP_UNDERFLOW == 745133

(* ------------------------------ helpers ------------------------------- *)
Min(a, b) == IF a <= b THEN a ELSE b
Max(a, b) == IF a >= b THEN a ELSE b

SetMax(S) == CHOOSE m \in S : \A n \in S : n <= m

\* s[1] + ... + s[n]; 0 when n <= 0, as a loop over range(n) adds nothing
RECURSIVE SumTo(_, _)
SumTo(s, n) == IF n <= 0 THEN 0 ELSE s[n] + SumTo(s, n - 1)

\* all sequences over S of length exactly n / at most n
SeqsOfLen(S, n) == [1..n -> S]
SeqsUpTo(S, n) == UNION {SeqsOfLen(S, m) : m \in 0..n}

\* a ^ b on n-bit operands
RECURSIVE XorBits(_, _, _)
XorBits(a, b, n) ==
    IF n = 0 THEN 0
    ELSE (((a % 2) + (b % 2)) % 2) + (2 * XorBits(a \div 2, b \div 2, n - 1))

xor_bytes(b1, b2) ==
    [j \in 1..Min(Len(b1), Len(b2)) |-> XorBits(b1[j], b2[j], 8)]

(* --------------------------- load_ftable ------------------------------ *)
\* The rows csv.reader yields; every cell is a string.
RAW_TABLES ==
    << << <<"",  " ", "T", "H", "E">>,
          <<" ", "1", "5", "2", "2">>,
          <<"T", "2", "1", "5", "2">>,
          <<"H", "1", "0", "0", "4">>,
          <<"E", "5", "2", "x", "3">> >>,
       << <<"",  "T", "E">>,
          <<"T", "0", "">>,
          <<"E", "1", "1">> >> >>

\* float(v) succeeds on these cells; on any other it raises
NUMERIC ==
    [c \in {"0", "1", "2", "3", "4", "5", "8"} |->
        CASE c = "0" -> 0 [] c = "1" -> 1 [] c = "2" -> 2 [] c = "3" -> 3
          [] c = "4" -> 4 [] c = "5" -> 5 [] c = "8" -> 8]

\* try: float(v) except: 0.0
cell_count(v) == IF v \in DOMAIN NUMERIC THEN NUMERIC[v] ELSE 0

\* str.strip() of a row label of at most one character
strip(s) == IF s = " " THEN "" ELSE s

\* 1000 * ln n for n = 1..10, from ln 2 = 693, ln 3 = 1099, ln 5 = 1609 and
\* ln 7 = 1946, so that equal ratios v / tot have equal logarithms
LN_MILLI == <<0, 693, 1099, 1386, 1609, 1792, 1946, 2079, 2198, 2302>>

\* math.log(prob) with prob = floor if tot <= 0 else max(v / tot, floor),
\* floor = 1e-9: v / tot <= 1e-9 iff v * 10^9 <= tot
log_prob(v, tot) ==
    IF tot <= 0 THEN LOG_FLOOR
    ELSE IF v = 0 \/ v <= tot \div 1000000000 THEN LOG_FLOOR
    ELSE LN_MILLI[v] - LN_MILLI[tot]

\* counts: a later row (or column) of the same key overwrites an earlier
table_counts(rows) ==
    LET header == Tail(rows[1])
        keys == {<<strip(rows[j][1]), header[i]>> :
                    j \in 2..Len(rows), i \in 1..Len(header)}
        lastRow(a) == SetMax({j \in 2..Len(rows) : strip(rows[j][1]) = a})
        lastCol(b) == SetMax({i \in 1..Len(header) : header[i] = b})
    IN [key \in keys |-> cell_count(rows[lastRow(key[1])][lastCol(key[2]) + 1])]

table_totals(counts) ==
    LET rowsOf == {key[1] : key \in DOMAIN counts}
        RECURSIVE Sum(_)
        Sum(S) == IF S = {} THEN 0
                  ELSE LET key == CHOOSE x \in S : TRUE
                       IN counts[key] + Sum(S \ {key})
    IN [a \in rowsOf |-> Sum({key \in DOMAIN counts : key[1] = a})]

load_ftable(rows) ==
    LET counts == table_counts(rows)
        totals == table_totals(counts)
    IN [key \in DOMAIN counts |-> log_prob(counts[key], totals[key[1]])]

(* ------------------------------ scoring ------------------------------- *)
LETTERS ==
    <<"A", "B", "C", "D", "E", "F", "G", "H", "I", "J", "K", "L", "M",
      "N", "O", "P", "Q", "R", "S", "T", "U", "V", "W", "X", "Y", "Z">>

byte_to_char(b) ==
    IF b = 32 THEN " "
    ELSE IF 65 <= b /\ b <= 90 THEN LETTERS[b - 64]
    ELSE IF 97 <= b /\ b <= 122 THEN LETTERS[(b - 32) - 64]
    ELSE "None"

\* logp.get((a, c), math.log(1e-9))
logp_get(table, a, c) ==
    IF <<a, c>> \in DOMAIN table THEN table[<<a, c>>] ELSE LOG_DEFAULT

\* the term with only the first byte tested for None
bigram_term_left(x, y, table) ==
    LET a == byte_to_char(x)
        c == byte_to_char(y)
    IN IF a = "None" THEN penalty ELSE logp_get(table, a, c)

\* one term of score_bigram's loop, for the adjacent bytes x, y
bigram_term(x, y, table) ==
    LET a == byte_to_char(x)
        c == byte_to_char(y)
    IN IF a = "None" \/ c = "None" THEN penalty ELSE logp_get(table, a, c)

score_bigram(b, table) ==
    LET terms == [j \in 1..(Len(b) - 1) |-> bigram_term(b[j], b[j + 1], table)]
    IN SumTo(terms, Len(b) - 1)

(* bytes.decode('utf-8', errors='ignore'): the code points of the well-formed
   UTF-8 sequences of b, every byte that starts none dropped. *)
\* the number of continuation bytes the lead byte x asks for, -1: no lead byte
utf8_need(x) ==
    IF x < 128 THEN 0
    ELSE IF 194 <= x /\ x <= 223 THEN 1
    ELSE IF 224 <= x /\ x <= 239 THEN 2
    ELSE IF 240 <= x /\ x <= 244 THEN 3
    ELSE -1

\* whether y may follow the lead byte x as its first continuation byte
utf8_second_ok(x, y) ==
    CASE x = 224 -> 160 <= y /\ y <= 191
      [] x = 237 -> 128 <= y /\ y <= 159
      [] x = 240 -> 144 <= y /\ y <= 191
      [] x = 244 -> 128 <= y /\ y <= 143
      [] OTHER   -> 128 <= y /\ y <= 191

\* whether a well-formed sequence starts at b[i]
utf8_valid_at(b, i) ==
    LET n == utf8_need(b[i])
    IN /\ n >= 0
       /\ i + n <= Len(b)
       /\ n >= 1 => utf8_second_ok(b[i], b[i + 1])
       /\ \A j \in 2..n : 128 <= b[i + j] /\ b[i + j] <= 191

utf8_code_point(b, i) ==
    LET n == utf8_need(b[i])
        c(j) == b[i + j] - 128
    IN CASE n = 0 -> b[i]
         [] n = 1 -> (b[i] - 192) * 64 + c(1)
         [] n = 2 -> (b[i] - 224) * 4096 + c(1) * 64 + c(2)
         [] n = 3 -> (b[i] - 240) * 262144 + c(1) * 4096 + c(2) * 64 + c(3)

RECURSIVE decode_from(_, _)
decode_from(b, i) ==
    IF i > Len(b) THEN <<>>
    ELSE IF utf8_valid_at(b, i)
         THEN <<utf8_code_point(b, i)>> \o decode_from(b, i + utf8_need(b[i]) + 1)
         ELSE decode_from(b, i + 1)

decode_ignore(b) == decode_from(b, 1)

\* str.lower() of one code point: A-Z fold to a-z; of the code points above
\* 127 only U+0130 and U+212A lowercase to text holding an ASCII letter
lower_code_point(c) ==
    IF 65 <= c /\ c <= 90 THEN <<c + 32>>
    ELSE IF c = 304 THEN <<105, 775>>
    ELSE IF c = 8490 THEN <<107>>
    ELSE <<c>>

RECURSIVE lower_from(_, _)
lower_from(text, i) ==
    IF i > Len(text) THEN <<>>
    ELSE lower_code_point(text[i]) \o lower_from(text, i + 1)

\* the text counted as it is, not lowercased
lower_none(text) == text
\* text.lower()
lower(text) == lower_from(text, 1)

\* str.count(word): the non-overlapping occurrences of word from index i on
RECURSIVE count_from(_, _, _)
count_from(text, word, i) ==
    IF i + Len(word) - 1 > Len(text) THEN 0
    ELSE IF SubSeq(text, i, i + Len(word) - 1) = word
         THEN 1 + count_from(text, word, i + Len(word))
         ELSE count_from(text, word, i + 1)

word_bonus_score(text) ==
    LET text_lower == lower(text)
        bonus == [w \in 1..Len(COMMON_WORDS) |->
                     count_from(text_lower, COMMON_WORDS[w], 1) * WORD_BONUS]
    IN SumTo(bonus, Len(COMMON_WORDS))

combined_score(candidate_bytes, table) ==
    LET base_score == score_bigram(candidate_bytes, table)
        as_text == decode_ignore(candidate_bytes)
        bonus == word_bonus_score(as_text)
    IN base_score + bonus

(* ------------------------------ hillclimb ----------------------------- *)
VARIABLES
    X,            \* the difference array (argument)
    logp,         \* the loaded bigram table (argument)
    restarts,     \* argument
    iterations,   \* argument
    pc,           \* "outer": at `for r`, "inner": at `for it`, "done": returned,
                  \* "crashed": left by an exception, "idle": not called
    r,            \* the restart index
    it,           \* the iteration index
    p1,           \* the working candidate (bytearray)
    cur_score,
    best_pair,
    best_score,
    steps,        \* history: the proposal steps executed so far
    max_held,     \* history: the highest score of a working candidate held
    outcome,      \* history: how the last step ended
    scored_bytes, \* the byte sequence handed to combined_score on its own
    score,        \* what combined_score returned for it
    spc,          \* "input": not scored yet, "scored", "idle": not used
    temp,         \* history: the temperature T of the last step, <<num, den>>
    proposed      \* history: of the last proposal, <<whether delta >= 0,
                  \* whether the candidate or its counterpart holds a byte
                  \* byte_to_char maps to None>>

vars == <<X, logp, restarts, iterations, pc, r, it, p1, cur_score, best_pair,
          best_score, steps, max_held, outcome, scored_bytes, score, spc, temp,
                   proposed>>

search_vars == <<X, logp, restarts, iterations, pc, r, it, p1, cur_score,
                 best_pair, best_score, steps, max_held, outcome, temp,
                   proposed>>

\* the bytes the model draws the difference array from: 0 (equal plaintext
\* bytes) and 0x74 = ' ' ^ 'T' = 't' ^ 0x00 = 'h' ^ 0x1C
DiffBytes == {0, 116}

\* the entries of ALPHABET the model lets random.choice(ALPHABET) return:
\* ' ', 'T', 'h'
Proposals == {ALPHABET[j] : j \in {1, 21, 35}}

Tables == {load_ftable(RAW_TABLES[j]) : j \in 1..Len(RAW_TABLES)}

\* the score of the candidate alone, its counterpart left out
pair_score_single(cand, diff, table) == combined_score(cand, table)

\* combined_score(p1, logp) + combined_score(xor_bytes(p1, X), logp)
pair_score(cand, diff, table) ==
    combined_score(cand, table) + combined_score(xor_bytes(cand, diff), table)

\* bytearray(k): a candidate of zero bytes
fresh_candidate_zero(k) == [j \in 1..k |-> 0]
\* bytearray([32] * k)
fresh_candidate(k) == [j \in 1..k |-> 32]

\* no proposal made yet in this restart
NO_PROPOSAL == <<FALSE, FALSE>>

\* byte_to_char(b[j]) is None for some byte of b
has_unscoreable(b) == \E j \in DOMAIN b : byte_to_char(b[j]) = "None"

\* T before the first step of a run: not assigned yet
NO_TEMP == <<0, 0>>

\* T = 1.0 - it / iterations, the floor max(0.01, .) left out
temperature_unfloored(i, n) == <<100 * (n - i), 100 * n>>
\* T = max(0.01, 1.0 - it / iterations), as the fraction <<num, den>>
temperature(i, n) == <<Max(n, 100 * (n - i)), 100 * n>>

\* math.exp(delta / T) == 0.0, for delta < 0: delta / T < -745.133.  As
\* T <= 1, a delta <= -745.133 underflows at every temperature.
exp_is_zero(delta, T) ==
    \/ delta <= -EXP_UNDERFLOW
    \/ delta * T[2] < (-EXP_UNDERFLOW) * T[1]

\* delta >= 0 or random.random() < math.exp(delta / T); below says whether
\* the draw is below a positive value of math.exp(delta / T)
accepts(delta, T, below) ==
    delta >= 0 \/ (below /\ ~exp_is_zero(delta, T))

\* the best pair overwritten by every accepted proposal
improves_always(new_score, best) == TRUE
\* if new_score > best_score
improves(new_score, best) == new_score > best

\* the revert left out
revert_none(cand, i, old) == cand
\* p1[i] = old
revert(cand, i, old) == [cand EXCEPT ![i] = old]

\* the candidate recorded twice, not with its counterpart
snapshot_unpaired(cand, diff) == <<cand, cand>>
\* (bytes(p1), xor_bytes(bytes(p1), X))
snapshot(cand, diff) == <<cand, xor_bytes(cand, diff)>>

SearchInit ==
    /\ X \in SeqsUpTo(DiffBytes, MaxLen)
    /\ logp \in Tables
    /\ restarts \in 0..MaxRestarts
    /\ iterations \in 0..MaxIterations
    /\ pc = "outer"
    /\ r = 0
    /\ it = 0
    /\ p1 = <<>>
    /\ cur_score = 0
    /\ best_pair = <<<<>>, <<>>>>
    /\ best_score = INITIAL_BEST
    /\ steps = 0
    /\ max_held = INITIAL_BEST
    /\ outcome = "none"
    /\ temp = NO_TEMP
    /\ proposed = NO_PROPOSAL

ScoreIdle ==
    /\ scored_bytes = <<>>
    /\ score = 0
    /\ spc = "idle"

Init == SearchInit /\ ScoreIdle

\* the candidate and its score set up once, before the loop over restarts
RestartInitCarry ==
    /\ pc = "outer"
    /\ r < restarts
    /\ p1' = IF r = 0 THEN fresh_candidate(Len(X)) ELSE p1
    /\ cur_score' = IF r = 0 THEN pair_score(p1', X, logp) ELSE cur_score
    /\ it' = 0
    /\ pc' = "inner"
    /\ max_held' = Max(max_held, cur_score')
    /\ outcome' = "none"
    /\ UNCHANGED <<X, logp, restarts, iterations, r, best_pair, best_score,
                   steps, scored_bytes, score, spc, temp>>
    /\ proposed' = NO_PROPOSAL

\* for r in range(restarts): p1 = ...; cur_score = ...
RestartInit ==
    /\ pc = "outer"
    /\ r < restarts
    /\ p1' = fresh_candidate(Len(X))
    /\ cur_score' = pair_score(p1', X, logp)
    /\ it' = 0
    /\ pc' = "inner"
    /\ max_held' = Max(max_held, cur_score')
    /\ outcome' = "none"
    /\ UNCHANGED <<X, logp, restarts, iterations, r, best_pair, best_score,
                   steps, scored_bytes, score, spc, temp>>
    /\ proposed' = NO_PROPOSAL

\* one pass of the body of `for it in range(iterations)`, with the drawn
\* position i, the drawn byte proposal, and the acceptance draw
Iterate(i, proposal, below) ==
    /\ pc = "inner"
    /\ it < iterations
    /\ i \in 1..Len(X)
    /\ LET old == p1[i]
           mutated == [p1 EXCEPT ![i] = proposal]
           T == temperature(it, iterations)
       IN \E new_score \in {pair_score(mutated, X, logp)} :
            LET delta == new_score - cur_score
            IN /\ proposed' = <<delta >= 0,
                                has_unscoreable(mutated)
                                    \/ has_unscoreable(xor_bytes(mutated, X))>>
               /\ IF accepts(delta, T, below)
                  THEN /\ p1' = mutated
                       /\ cur_score' = new_score
                       /\ IF improves(new_score, best_score)
                          THEN /\ best_score' = new_score
                               /\ best_pair' = snapshot(mutated, X)
                          ELSE UNCHANGED <<best_score, best_pair>>
                       /\ max_held' = Max(max_held, new_score)
                       /\ outcome' = "accepted"
                  ELSE /\ p1' = revert(mutated, i, old)
                       /\ outcome' = "rejected"
                       /\ UNCHANGED <<cur_score, best_score, best_pair,
                                      max_held>>
    /\ temp' = temperature(it, iterations)
    /\ it' = it + 1
    /\ steps' = steps + 1
    /\ UNCHANGED <<X, logp, restarts, iterations, pc, r, scored_bytes, score,
                   spc>>

\* random.randrange(k) with k = 0 raises ValueError, which nothing catches
EmptyRange ==
    /\ pc = "inner"
    /\ it < iterations
    /\ Len(X) = 0
    /\ pc' = "crashed"
    /\ UNCHANGED <<X, logp, restarts, iterations, r, it, p1, cur_score,
                   best_pair, best_score, steps, max_held, outcome,
                   scored_bytes, score, spc, temp,
                   proposed>>

\* a restart left after its first proposal
InnerExitEarly ==
    /\ pc = "inner"
    /\ it = iterations \/ it >= 1
    /\ r' = r + 1
    /\ pc' = "outer"
    /\ UNCHANGED <<X, logp, restarts, iterations, it, p1, cur_score,
                   best_pair, best_score, steps, max_held, outcome,
                   scored_bytes, score, spc, temp,
                   proposed>>

\* range(iterations) is exhausted: on to the next restart
InnerExit ==
    /\ pc = "inner"
    /\ it = iterations
    /\ r' = r + 1
    /\ pc' = "outer"
    /\ UNCHANGED <<X, logp, restarts, iterations, it, p1, cur_score,
                   best_pair, best_score, steps, max_held, outcome,
                   scored_bytes, score, spc, temp,
                   proposed>>

\* range(restarts) is exhausted: return best_pair, best_score
Return ==
    /\ pc = "outer"
    /\ r = restarts
    /\ pc' = "done"
    /\ UNCHANGED <<X, logp, restarts, iterations, r, it, p1, cur_score,
                   best_pair, best_score, steps, max_held, outcome,
                   scored_bytes, score, spc, temp,
                   proposed>>

Step == \E i \in 1..MaxLen, proposal \in Proposals, below \in BOOLEAN :
            Iterate(i, proposal, below)

Next ==
    \/ RestartInit
    \/ Step
    \/ EmptyRange
    \/ InnerExit
    \/ Return

Spec == Init /\ [][Next]_vars

(* ----------------------- combined_score on its own -------------------- *)
\* the bytes a scored sequence is drawn from: ' ', 't', 'h', 'e', '.', 0x80,
\* 0xC4 0xB0 (U+0130 in UTF-8), 'T'
ScoreBytes == {32, 116, 104, 101, 46, 128, 196, 176, 84}

SearchIdle ==
    /\ X = <<>>
    /\ restarts = 0
    /\ iterations = 0
    /\ pc = "idle"
    /\ r = 0
    /\ it = 0
    /\ p1 = <<>>
    /\ cur_score = 0
    /\ best_pair = <<<<>>, <<>>>>
    /\ best_score = INITIAL_BEST
    /\ steps = 0
    /\ max_held = INITIAL_BEST
    /\ outcome = "none"
    /\ temp = NO_TEMP
    /\ proposed = NO_PROPOSAL

ScoreInit ==
    /\ SearchIdle
    /\ logp \in Tables
    /\ scored_bytes \in SeqsUpTo(ScoreBytes, MaxScoreLen)
    /\ score = 0
    /\ spc = "input"

\* score = combined_score(scored_bytes, logp)
ScoreCandidate ==
    /\ spc = "input"
    /\ score' = combined_score(scored_bytes, logp)
    /\ spc' = "scored"
    /\ UNCHANGED <<search_vars, scored_bytes>>

ScoreNext == ScoreCandidate

ScoreSpec == ScoreInit /\ [][ScoreNext]_vars

(* ---------------------- the cooling schedule on its own --------------- *)
CoolInit ==
    /\ X = <<>>
    /\ logp \in {load_ftable(RAW_TABLES[1])}
    /\ restarts = 1
    /\ iterations \in 1..MaxCoolIterations
    /\ pc = "cooling"
    /\ r = 0
    /\ it = 0
    /\ p1 = <<>>
    /\ cur_score = 0
    /\ best_pair = <<<<>>, <<>>>>
    /\ best_score = INITIAL_BEST
    /\ steps = 0
    /\ max_held = INITIAL_BEST
    /\ outcome = "none"
    /\ temp = NO_TEMP
    /\ proposed = NO_PROPOSAL
    /\ ScoreIdle

\* for it in range(iterations): T = max(0.01, 1.0 - it / iterations)
Cool ==
    /\ pc = "cooling"
    /\ it < iterations
    /\ temp' = temperature(it, iterations)
    /\ it' = it + 1
    /\ UNCHANGED <<X, logp, restarts, iterations, pc, r, p1, cur_score,
                   best_pair, best_score, steps, max_held, outcome,
                   scored_bytes, score, spc, proposed>>

CoolNext == Cool

CoolSpec == CoolInit /\ [][CoolNext]_vars

(* ------------------------------- claims ------------------------------- *)
\* space, A-Z, a-z
IsAlphabetByte(b) ==
    b = 32 \/ (65 <= b /\ b <= 90) \/ (97 <= b /\ b <= 122)

AlphabetOnly(b) == \A j \in DOMAIN b : IsAlphabetByte(b[j])
NonAlphabetOnly(b) == \A j \in DOMAIN b : ~IsAlphabetByte(b[j])

\* a pair of Len(X) bytes each whose XOR is X at every position
XorPair(pair) ==
    /\ Len(pair[1]) = Len(X)
    /\ Len(pair[2]) = Len(X)
    /\ \A j \in 1..Len(X) : XorBits(pair[1][j], pair[2][j], 8) = X[j]

\* C1: the pair hillclimb returns has the length of X in both components and
\* XORs to X at every position.
C1_ReturnedPairXorsToX == pc = "done" => XorPair(best_pair)

\* C2: best_score never decreases from one step to the next, and the start of
\* a restart leaves best_pair and best_score as they were.
C2_BestScoreMonotone ==
    [][/\ best_score' >= best_score
       /\ (pc = "outer" /\ pc' = "inner") =>
              (best_pair' = best_pair /\ best_score' = best_score)]_vars

\* a proposal accepted in a later restart that scores below the best so far
C2_Witness ==
    /\ r >= 1
    /\ pc = "inner"
    /\ outcome = "accepted"
    /\ cur_score < best_score

\* C3: the score hillclimb returns is at least the score of every working
\* candidate it held (each restart's all-space candidate, every accepted one).
C3_ReturnsGlobalBest == pc = "done" => best_score >= max_held

\* C4: on an empty difference array, with restarts and iterations to run,
\* hillclimb does not crash and returns (b"", b"") with score 0.
C4_EmptyInputReturnsZero ==
    (Len(X) = 0 /\ restarts >= 1 /\ iterations >= 1) =>
        /\ pc # "crashed"
        /\ pc = "done" => (best_pair = <<<<>>, <<>>>> /\ best_score = 0)

\* the alphabet-only sequences of length n over the scored bytes
AlphabetSeqs(n) == SeqsOfLen({b \in ScoreBytes : IsAlphabetByte(b)}, n)

\* C6 as stated: a sequence of non-alphabet bytes only scores strictly below
\* every sequence of alphabet bytes only of the same length, at every length.
C6_PenaltyDominanceEveryLength ==
    (spc = "scored" /\ NonAlphabetOnly(scored_bytes)) =>
        \A s \in AlphabetSeqs(Len(scored_bytes)) :
            score < combined_score(s, logp)

\* C6 amended: the same, for the lengths n >= 2 (a sequence shorter than two
\* bytes has no adjacent pair, and both scores are 0).
C6_PenaltyDominance ==
    (spc = "scored" /\ NonAlphabetOnly(scored_bytes) /\ Len(scored_bytes) >= 2) =>
        \A s \in AlphabetSeqs(Len(scored_bytes)) :
            score < combined_score(s, logp)

\* a scored sequence of three non-alphabet bytes: two penalties
C6_Witness ==
    /\ spc = "scored"
    /\ NonAlphabetOnly(scored_bytes)
    /\ Len(scored_bytes) = 3
    /\ score = 2 * penalty

\* the scoring characters: space and A-Z
ScoringChars == {" "} \cup {LETTERS[j] : j \in 1..Len(LETTERS)}

\* C7: for every pair of scoring characters the lookup yields a number
\* between the floor log(1e-9) and 0, exactly the floor of the frequency
\* model when the pair is no key of the table; a scored two-byte sequence
\* whose pair is no key scores that floor.
C7_LookupFloor ==
    /\ \A a \in ScoringChars, c \in ScoringChars :
          /\ logp_get(logp, a, c) \in LOG_FLOOR..0
          /\ <<a, c>> \notin DOMAIN logp => logp_get(logp, a, c) = LOG_FLOOR
    /\ ( /\ spc = "scored"
         /\ Len(scored_bytes) = 2
         /\ AlphabetOnly(scored_bytes)
         /\ <<byte_to_char(scored_bytes[1]), byte_to_char(scored_bytes[2])>>
                \notin DOMAIN logp )
       => score = LOG_FLOOR

\* the pair ('h', ' ') scored against a table that has no row H
C7_Witness ==
    /\ spc = "scored"
    /\ scored_bytes = <<104, 32>>
    /\ <<"H", " ">> \notin DOMAIN logp
    /\ score = LOG_FLOOR

\* C8: once a restart has begun p1 has Len(X) bytes; every byte of p1 and of
\* the first component of best_pair is an alphabet byte.
C8_CandidateInAlphabet ==
    /\ (pc \in {"inner", "crashed"} \/ r >= 1) => Len(p1) = Len(X)
    /\ AlphabetOnly(p1)
    /\ AlphabetOnly(best_pair[1])

\* after a rejected proposal, with a letter in p1 and a best pair recorded
C8_Witness ==
    /\ outcome = "rejected"
    /\ \E j \in DOMAIN p1 : p1[j] # 32
    /\ best_pair[1] # <<>>
    /\ best_pair[1] # p1

\* the steps of the model left until hillclimb returns
Remaining ==
    CASE pc = "outer" -> (restarts - r) * (iterations + 2) + 1
      [] pc = "inner" -> (restarts - r - 1) * (iterations + 2) + (iterations - it) + 2
      [] OTHER -> 0

\* C9: on a non-empty X hillclimb never crashes or stops short: every step
\* brings the return nearer, each loop is left only when its range is
\* exhausted, and when hillclimb has returned it has run restarts *
\* iterations proposal steps, iterations of them in every restart.
C9_RunsEveryStep ==
    /\ [](Len(X) > 0 =>
            /\ pc \in {"outer", "inner", "done"}
            /\ Remaining >= 0
            /\ pc = "outer" => (r <= restarts /\ steps = r * iterations)
            /\ pc = "inner" =>
                   (r < restarts /\ it <= iterations /\ steps = r * iterations + it)
            /\ pc = "done" => (r = restarts /\ steps = restarts * iterations))
    /\ [][Len(X) > 0 => Remaining' < Remaining]_vars

\* a returned run of the most restarts and iterations on a non-empty X
C9_Witness ==
    /\ pc = "done"
    /\ Len(X) > 0
    /\ restarts = MaxRestarts
    /\ iterations = MaxIterations
    /\ steps = MaxRestarts * MaxIterations

\* C10: a step that rejects its proposal leaves p1, cur_score, best_score and
\* best_pair as they were before the proposal.
C10_RejectionChangesNothing ==
    [][(steps' = steps + 1 /\ outcome' = "rejected") =>
           /\ p1' = p1
           /\ cur_score' = cur_score
           /\ best_score' = best_score
           /\ best_pair' = best_pair]_vars

\* a rejected proposal at a position that held a letter
C10_Witness ==
    /\ outcome = "rejected"
    /\ it = 2
    /\ \E j \in DOMAIN p1 : p1[j] # 32
    /\ cur_score > pair_score(fresh_candidate(Len(X)), X, logp)

\* the raw tables the loaded table logp was built from
RawOfLogp == {j \in 1..Len(RAW_TABLES) : load_ftable(RAW_TABLES[j]) = logp}

\* count(a, b) and total(a) read off row j of the raw table rows
RowCounts(rows, j) == [i \in 1..(Len(rows[j]) - 1) |-> cell_count(rows[j][i + 1])]
RowTotal(rows, j) == SumTo(RowCounts(rows, j), Len(rows[j]) - 1)

\* log(max(count / total, 1e-9)), or log(1e-9) when the total is zero
TableLog(rows, j, i) ==
    IF RowTotal(rows, j) = 0 \/ RowCounts(rows, j)[i] = 0 THEN LOG_FLOOR
    ELSE LN_MILLI[RowCounts(rows, j)[i]] - LN_MILLI[RowTotal(rows, j)]

\* C11: for every row character a and column character b of the table (the
\* space row and column included) the lookup for (a, b) is the value computed
\* from the table's counts, and a scored two-byte sequence mapping to (a, b)
\* scores that value.
C11_TablePairsLookedUp ==
    \A t \in RawOfLogp :
        LET rows == RAW_TABLES[t]
        IN \A j \in 2..Len(rows), i \in 1..(Len(rows[1]) - 1) :
              LET a == rows[j][1]
                  b == rows[1][i + 1]
              IN /\ logp_get(logp, a, b) = TableLog(rows, j, i)
                 /\ ( /\ spc = "scored"
                      /\ Len(scored_bytes) = 2
                      /\ byte_to_char(scored_bytes[1]) = a
                      /\ byte_to_char(scored_bytes[2]) = b )
                    => score = TableLog(rows, j, i)

\* the all-space sequence of Len(X) bytes
AllSpace == [j \in 1..Len(X) |-> 32]

\* C12: the step that starts a restart makes p1 the all-space sequence of
\* length k and cur_score the combined score of it and of its XOR with X,
\* whatever p1 and cur_score were before.
C12_RestartStartsFresh ==
    [][(pc = "outer" /\ pc' = "inner") =>
           /\ p1' = AllSpace
           /\ it' = 0
           /\ cur_score' = combined_score(AllSpace, logp)
                             + combined_score(xor_bytes(AllSpace, X), logp)]_vars

\* the start of a later restart, after a restart that recorded a best pair
\* with a letter in it and a score other than the all-space score
C12_Witness ==
    /\ r >= 1
    /\ pc = "inner"
    /\ it = 0
    /\ p1 = AllSpace
    /\ \E j \in DOMAIN best_pair[1] : best_pair[1][j] # 32
    /\ best_score # cur_score

\* C13: every temperature T computed in a pass over range(iterations),
\* iterations >= 1, is a fraction with 0.01 <= T <= 1.0, so it is not zero
\* and delta / T is defined, and T never increases from one step to the next.
C13_TemperatureInRange ==
    /\ [](temp # NO_TEMP =>
            /\ temp[2] > 0
            /\ temp[1] > 0
            /\ 100 * temp[1] >= temp[2]
            /\ temp[1] <= temp[2])
    /\ [][(temp # NO_TEMP /\ it' = it + 1) =>
              temp'[1] * temp[2] <= temp[1] * temp'[2]]_vars

\* a step at which 1.0 - it / iterations is below 0.01 and T is the floor
C13_Witness ==
    /\ pc = "cooling"
    /\ it >= 1
    /\ 100 * (iterations - (it - 1)) < iterations
    /\ 100 * temp[1] = temp[2]

\* what the adjacent bytes x, y are stated to contribute to the bigram score
StatedTerm(x, y, table) ==
    IF IsAlphabetByte(x) /\ IsAlphabetByte(y)
    THEN logp_get(table, byte_to_char(x), byte_to_char(y))
    ELSE 0 - 100000

StatedBigram(b, table) ==
    LET terms == [j \in 1..(Len(b) - 1) |-> StatedTerm(b[j], b[j + 1], table)]
    IN SumTo(terms, Len(b) - 1)

\* combined_score(b) is a number: the stated bigram score plus a whole number
\* of word bonuses, none where b has no alphabet byte
ScoredAsStated(b, table) ==
    LET total == combined_score(b, table)
    IN /\ total \in Int
       /\ score_bigram(b, table) = StatedBigram(b, table)
       /\ total >= StatedBigram(b, table)
       /\ (total - StatedBigram(b, table)) % WORD_BONUS = 0
       /\ NonAlphabetOnly(b) => total = (0 - 100000) * Max(0, Len(b) - 1)

\* C14: combined_score yields a number for every byte sequence, each adjacent
\* pair holding a byte outside the alphabet contributing exactly -100 to the
\* bigram score and undecodable bytes adding no bonus; this holds for the
\* working candidate and its counterpart p1 XOR X, and for every sequence of
\* sample bytes (scoring depends on the table only, so these are scored once
\* per table, at the start of the search on the empty X); and a proposal is
\* rejected only when its score is below cur_score and always accepted when
\* it is not, whatever bytes it holds.
C14_ScoringNeverFails ==
    /\ Len(p1) = Len(X) =>
          /\ ScoredAsStated(p1, logp)
          /\ ScoredAsStated(xor_bytes(p1, X), logp)
    /\ (pc = "outer" /\ r = 0 /\ X = <<>> /\ restarts = 0 /\ iterations = 0) =>
          \A b \in SeqsUpTo(ScoreBytes, MaxScoreLen) : ScoredAsStated(b, logp)
    /\ outcome = "rejected" => ~proposed[1]
    /\ proposed[1] => outcome = "accepted"

\* an accepted proposal whose counterpart holds a byte outside the alphabet
\* next to another byte, taken because its score was not below cur_score
C14_Witness ==
    /\ pc = "inner"
    /\ outcome = "accepted"
    /\ proposed = <<TRUE, TRUE>>
    /\ Len(X) = 2
    /\ has_unscoreable(xor_bytes(p1, X))
    /\ cur_score <= 0 - 100000

\* b with every lowercase letter a-z replaced by its uppercase letter
Uppercased(b) ==
    [j \in 1..Len(b) |-> IF 97 <= b[j] /\ b[j] <= 122 THEN b[j] - 32 ELSE b[j]]

\* C15: a scored sequence of alphabet bytes has the combined score, the
\* bigram score and the word bonus of the same sequence with its lowercase
\* letters replaced by uppercase ones.
C15_CaseInsensitive ==
    (spc = "scored" /\ AlphabetOnly(scored_bytes)) =>
        LET upper == Uppercased(scored_bytes)
        IN /\ score = combined_score(upper, logp)
           /\ score_bigram(scored_bytes, logp) = score_bigram(upper, logp)
           /\ word_bonus_score(decode_ignore(scored_bytes))
                  = word_bonus_score(decode_ignore(upper))

\* "the" scored: one word bonus, the same as "THE"
C15_Witness ==
    /\ spc = "scored"
    /\ scored_bytes = <<116, 104, 101>>
    /\ Uppercased(scored_bytes) = <<84, 72, 69>>
    /\ score = score_bigram(<<84, 72, 69>>, logp) + WORD_BONUS

\* C16: at every iteration boundary of a restart (before a proposal, after an
\* accepted and after a reverted one) cur_score is combined_score(p1) +
\* combined_score(p1 XOR X) of the working candidate p1.
C16_CurScoreMatchesCandidate ==
    pc = "inner" =>
        cur_score = combined_score(p1, logp)
                        + combined_score(xor_bytes(p1, X), logp)

\* the boundary after a reverted proposal that followed an accepted one
C16_Witness ==
    /\ pc = "inner"
    /\ it = 2
    /\ outcome = "rejected"
    /\ Len(X) = 2
    /\ p1 # AllSpace
    /\ cur_score # pair_score(AllSpace, X, logp)
    /\ cur_score # 0

\* C17: once an acceptance has recorded a best pair, best_score is
\* combined_score(best_pair[0]) + combined_score(best_pair[1]); and best_pair
\* changes only in an accepted step that raises best_score, to the copy of
\* the candidate and its counterpart taken then, so that no later mutation
\* or revert of the working candidate changes it.
C17_BestPairIsSnapshot ==
    /\ [](best_score # INITIAL_BEST =>
            best_score = combined_score(best_pair[1], logp)
                             + combined_score(best_pair[2], logp))
    /\ [][best_pair' # best_pair =>
              /\ steps' = steps + 1
              /\ outcome' = "accepted"
              /\ best_score' > best_score
              /\ best_pair' = <<p1', xor_bytes(p1', X)>>]_vars

\* a later accepted mutation has moved the working candidate away from the
\* recorded best pair, which still scores best_score
C17_Witness ==
    /\ pc = "inner"
    /\ outcome = "accepted"
    /\ best_score # INITIAL_BEST
    /\ best_pair[1] # p1
    /\ best_pair[1] # AllSpace
    /\ cur_score < best_score

====
